---- MODULE Spec2Model ----
(***************************************************************************)
(* Model of "Automated tools/automated_sqlmap.py": the three identifier   *)
(* extractors (one regular expression, re.findall), run_sqlmap's nested    *)
(* database / table / column walk over an external tool, and the           *)
(* __main__ block that reads and trims the target URL.                     *)
(*                                                                         *)
(* Text is a sequence of one-character strings, so that the regular        *)
(* expression, str.strip and the trailing-newline removal of               *)
(* subprocess.getoutput act on characters.  The literal parts of printed   *)
(* lines and of command lines are kept as one string each; identifiers     *)
(* and the URL stay character sequences.                                   *)
(***************************************************************************)
EXTENDS Naturals, Sequences, FiniteSets

VARIABLES
    pc,          \* position of the script
    line,        \* the line input() returned
    target_url,  \* line 53
    output,      \* dbs_output / tables_output / columns_output, the last captured
    databases,   \* line 24
    dbi,         \* index of db in databases (the for loop of line 29)
    tables,      \* line 35
    ti,          \* index of table in tables (the for loop of line 40)
    columns,     \* line 46
    trace        \* stdout prints and external invocations, in program order

vars == <<pc, line, target_url, output, databases, dbi, tables, ti, columns, trace>>

-----------------------------------------------------------------------------
(* Bounds and input alphabets *)

MaxPieces == 4

NL == "\n"

\* the literal text matched by \[\*\]  followed by one space
MARKER == <<"[", "*", "]", " ">>

\* fragments the extractor's input texts are built from
Pieces ==
    { MARKER,
      <<"a">>,
      <<NL>>,
      <<"i", " ">>,
      <<"[", "*", "]">>,
      MARKER \o <<"a", NL>>,
      MARKER \o <<"b", NL>> }

RECURSIVE TextsOfPieces(_)
TextsOfPieces(n) ==
    IF n = 0 THEN { <<>> }
    ELSE { p \o t : p \in Pieces, t \in TextsOfPieces(n - 1) }

Texts == UNION { TextsOfPieces(n) : n \in 0..MaxPieces }

\* what the external tool may write for one invocation (its whole stdout/stderr)
ToolOutputs ==
    { <<>>,
      MARKER \o <<"a", NL>>,
      MARKER \o <<"a", NL, NL>>,
      MARKER \o <<"a", NL>> \o MARKER \o <<"b">>,
      MARKER \o <<"a", NL>> \o MARKER \o <<"a", NL>> \o MARKER \o <<"b", NL>>,
      <<"i", " ">> \o MARKER \o <<"b", NL>> \o MARKER \o <<"i", "d", NL, NL>> }

\* what the operator may type at the prompt
ConsoleLines ==
    { <<>>, <<" ">>, <<" ", " ">>, <<"u">>, <<" ", "u", " ">> }

-----------------------------------------------------------------------------
(* re.findall(r'\[\*\] (.*?)\n', output) *)

HasMarkerAt(s, p) ==
    /\ p + 3 <= Len(s)
    /\ SubSeq(s, p, p + 3) = MARKER

\* index of the first newline at or after position p, 0 when there is none
NewlineFrom(s, p) ==
    IF \E k \in p..Len(s) : s[k] = NL
    THEN CHOOSE k \in p..Len(s) : s[k] = NL /\ \A j \in p..(k - 1) : s[j] # NL
    ELSE 0

\* a match starting at p: the marker, a lazy run of non-newline characters, a newline
\* (the index of that newline, 0 when the pattern does not match at p)
MatchAt(s, p) ==
    IF HasMarkerAt(s, p) THEN NewlineFrom(s, p + 4) ELSE 0

RECURSIVE FindAllFrom(_, _)
FindAllFrom(s, pos) ==
    IF pos > Len(s) THEN <<>>
    ELSE LET nl == MatchAt(s, pos)
         IN IF nl > 0
            THEN <<SubSeq(s, pos + 4, nl - 1)>> \o FindAllFrom(s, nl + 1)
            ELSE FindAllFrom(s, pos + 1)

\* variant: re.search in place of re.findall, the first match only
findall_first(s) ==
    LET all == FindAllFrom(s, 1) IN IF all = <<>> THEN <<>> ELSE <<all[1]>>

findall(s) == FindAllFrom(s, 1)

extract_databases(out) ==
    LET match == findall(out) IN IF match # <<>> THEN match ELSE <<>>

extract_tables(out) ==
    LET match == findall(out) IN IF match # <<>> THEN match ELSE <<>>

extract_columns(out) ==
    LET match == findall(out) IN IF match # <<>> THEN match ELSE <<>>

-----------------------------------------------------------------------------
(* Library calls of the script *)

\* variant: the output kept as the tool wrote it
getoutput_keep(raw) == raw

\* subprocess.getoutput: the command's output with one trailing newline removed
getoutput(raw) ==
    IF Len(raw) > 0 /\ raw[Len(raw)] = NL
    THEN SubSeq(raw, 1, Len(raw) - 1)
    ELSE raw

IsSpace(c) == c \in {" ", NL, "\t"}

RECURSIVE lstrip(_)
lstrip(s) ==
    IF s # <<>> /\ IsSpace(Head(s)) THEN lstrip(Tail(s)) ELSE s

RECURSIVE rstrip(_)
rstrip(s) ==
    IF s # <<>> /\ IsSpace(s[Len(s)]) THEN rstrip(SubSeq(s, 1, Len(s) - 1)) ELSE s

\* variant: the line taken untrimmed
strip_none(s) == s

\* str.strip()
strip(s) == rstrip(lstrip(s))

\* variant: ','.join(names)
RECURSIVE join_nospace(_)
join_nospace(names) ==
    IF names = <<>> THEN <<>>
    ELSE IF Len(names) = 1 THEN names[1]
    ELSE names[1] \o <<",">> \o join_nospace(Tail(names))

\* ', '.join(names)
RECURSIVE join(_)
join(names) ==
    IF names = <<>> THEN <<>>
    ELSE IF Len(names) = 1 THEN names[1]
    ELSE names[1] \o <<",", " ">> \o join(Tail(names))

-----------------------------------------------------------------------------
(* Command lines and printed lines *)

dbs_command(url) ==
    <<"sqlmap -u ">> \o url \o <<" --batch --dbs --disable-color">>

tables_command(url, db) ==
    <<"sqlmap -u ">> \o url \o <<" -D ">> \o db \o <<" --batch --tables">>

columns_command(url, db, table) ==
    <<"sqlmap -u ">> \o url \o <<" -D ">> \o db \o <<" -T ">> \o table
        \o <<" --batch --columns">>

RunningLine(url) == <<"Running SQLMap on ">> \o url \o <<" to fetch databases...">>
NoDatabasesLine == <<"No databases found.">>
FoundDatabaseLine(db) == <<"Found database: ">> \o db
NoTablesLine(db) == <<"No tables found in database ">> \o db \o <<".">>
ExtractingLine(table) == <<"Extracting columns from ">> \o table \o <<"...">>
NoColumnsLine(table) == <<"No columns found in table ">> \o table \o <<".">>
ColumnsLine(table, cols) == <<"Columns in ">> \o table \o <<": ">> \o join(cols)
InvalidLine == <<"Invalid URL">>
PromptText == <<"Enter target URL: ">>

\* the kinds of event of the trace
Prompt(text) == <<"prompt", text>>
Printed(text) == <<"print", text>>
Invoke(cmd, raw) == <<"invoke", cmd, raw>>

-----------------------------------------------------------------------------
(* The script *)

Init ==
    /\ pc = "input"
    /\ line = <<>>
    /\ target_url = <<>>
    /\ output = <<>>
    /\ databases = <<>>
    /\ dbi = 0
    /\ tables = <<>>
    /\ ti = 0
    /\ columns = <<>>
    /\ trace = <<>>

\* target_url = input("Enter target URL: ").strip()
ReadInput ==
    /\ pc = "input"
    /\ \E typed \in ConsoleLines :
        /\ line' = typed
        /\ target_url' = strip(typed)
    /\ trace' = Append(trace, Prompt(PromptText))
    /\ pc' = "main"
    /\ UNCHANGED <<output, databases, dbi, tables, ti, columns>>

\* else: print("Invalid URL")
InvalidURL ==
    /\ pc = "main"
    /\ target_url = <<>>
    /\ trace' = Append(trace, Printed(InvalidLine))
    /\ pc' = "done"
    /\ UNCHANGED <<line, target_url, output, databases, dbi, tables, ti, columns>>

\* variant: a name already visited is skipped (iteration over the distinct names)
NextIndexDistinct(names, i) ==
    LET later == { j \in (i + 1)..Len(names) :
                     \A k \in 1..(j - 1) : names[k] # names[j] }
    IN IF later = {} THEN 0
       ELSE CHOOSE j \in later : \A k \in later : j <= k

\* variant: iteration from the last name to the first
NextIndexReversed(names, i) ==
    IF i = 0 THEN Len(names) ELSE i - 1

\* `for x in names`: the index after i, 0 when the loop is exhausted (i = 0: the start)
NextIndex(names, i) == IF i < Len(names) THEN i + 1 ELSE 0

\* variant: the emptiness test left out
no_databases_never(dbs) == FALSE

\* `if not databases:` (line 25)
no_databases(dbs) == dbs = <<>>

\* variant: the emptiness test left out
no_tables_never(tbls) == FALSE

\* `if not tables:` (line 36)
no_tables(tbls) == tbls = <<>>

\* `if not columns:` (line 47)
no_columns(cols) == cols = <<>>

\* the position of the script when the loop over databases moves to index n
DatabaseLoop(n) == IF n = 0 THEN "done" ELSE "db_loop"

\* variant: `return` in place of `continue`
ContinueAbort(dbs, i) == 0

\* `continue` (line 38): on to the database after number i
ContinueAfter(dbs, i) == NextIndex(dbs, i)

\* run_sqlmap(url), lines 19-27: the database listing
ListDatabases ==
    /\ pc = "main"
    /\ target_url # <<>>
    /\ \E raw \in ToolOutputs :
        LET dbs_output == getoutput(raw)
            dbs == extract_databases(dbs_output)
            shown == <<Printed(RunningLine(target_url)),
                       Invoke(dbs_command(target_url), raw),
                       Printed(dbs_output)>>
            n == NextIndex(dbs, 0)
        IN /\ output' = dbs_output
           /\ databases' = dbs
           /\ IF no_databases(dbs)
              THEN /\ trace' = trace \o shown \o <<Printed(NoDatabasesLine)>>
                   /\ pc' = "done"
                   /\ dbi' = 0
              ELSE /\ trace' = trace \o shown
                   /\ pc' = DatabaseLoop(n)
                   /\ dbi' = n
    /\ UNCHANGED <<line, target_url, tables, ti, columns>>

\* lines 29-38: the table listing of one database
ListTables ==
    /\ pc = "db_loop"
    /\ \E raw \in ToolOutputs :
        LET db == databases[dbi]
            tables_output == getoutput(raw)
            tbls == extract_tables(tables_output)
            shown == <<Printed(FoundDatabaseLine(db)),
                       Invoke(tables_command(target_url, db), raw),
                       Printed(tables_output)>>
            m == NextIndex(tbls, 0)
        IN /\ output' = tables_output
           /\ tables' = tbls
           /\ IF no_tables(tbls)
              THEN /\ trace' = trace \o shown \o <<Printed(NoTablesLine(db))>>
                   /\ pc' = DatabaseLoop(ContinueAfter(databases, dbi))
                   /\ dbi' = ContinueAfter(databases, dbi)
                   /\ ti' = 0
              ELSE /\ trace' = trace \o shown
                   /\ pc' = IF m = 0 THEN DatabaseLoop(NextIndex(databases, dbi))
                                     ELSE "table_loop"
                   /\ dbi' = IF m = 0 THEN NextIndex(databases, dbi) ELSE dbi
                   /\ ti' = m
    /\ UNCHANGED <<line, target_url, databases, columns>>

\* lines 40-50: the column listing of one table
ListColumns ==
    /\ pc = "table_loop"
    /\ \E raw \in ToolOutputs :
        LET db == databases[dbi]
            table == tables[ti]
            columns_output == getoutput(raw)
            cols == extract_columns(columns_output)
            result == IF no_columns(cols) THEN NoColumnsLine(table)
                                          ELSE ColumnsLine(table, cols)
        IN /\ output' = columns_output
           /\ columns' = cols
           /\ trace' = trace \o <<Printed(ExtractingLine(table)),
                                  Invoke(columns_command(target_url, db, table), raw),
                                  Printed(columns_output),
                                  Printed(result)>>
    /\ LET m == NextIndex(tables, ti)
       IN /\ ti' = m
          /\ pc' = IF m = 0 THEN DatabaseLoop(NextIndex(databases, dbi)) ELSE pc
          /\ dbi' = IF m = 0 THEN NextIndex(databases, dbi) ELSE dbi
    /\ UNCHANGED <<line, target_url, databases, tables>>

Next ==
    \/ ReadInput
    \/ InvalidURL
    \/ ListDatabases
    \/ ListTables
    \/ ListColumns

Spec == Init /\ [][Next]_vars

-----------------------------------------------------------------------------
(* The extractors on their own: one text, one extractor applied to it *)

InitExtract ==
    /\ pc = "text"
    /\ output \in Texts
    /\ line = <<>>
    /\ target_url = <<>>
    /\ databases = <<>>
    /\ dbi = 0
    /\ tables = <<>>
    /\ ti = 0
    /\ columns = <<>>
    /\ trace = <<>>

ExtractDatabases ==
    /\ pc = "text"
    /\ databases' = extract_databases(output)
    /\ pc' = "databases"
    /\ UNCHANGED <<line, target_url, output, dbi, tables, ti, columns, trace>>

ExtractTables ==
    /\ pc = "text"
    /\ tables' = extract_tables(output)
    /\ pc' = "tables"
    /\ UNCHANGED <<line, target_url, output, databases, dbi, ti, columns, trace>>

ExtractColumns ==
    /\ pc = "text"
    /\ columns' = extract_columns(output)
    /\ pc' = "columns"
    /\ UNCHANGED <<line, target_url, output, databases, dbi, tables, ti, trace>>

NextExtract ==
    \/ ExtractDatabases
    \/ ExtractTables
    \/ ExtractColumns

SpecExtract == InitExtract /\ [][NextExtract]_vars

-----------------------------------------------------------------------------
(* Reading a text line by line, for stating the properties *)

Last(s) == s[Len(s)]
Front(s) == SubSeq(s, 1, Len(s) - 1)

NewlinePositions(s) == { k \in 1..Len(s) : s[k] = NL }

\* position of the k-th newline of s
NthNewline(s, k) ==
    CHOOSE p \in NewlinePositions(s) :
        Cardinality({ q \in NewlinePositions(s) : q < p }) = k - 1

\* the newline-terminated lines of s, without their newline, in order
TerminatedLines(s) ==
    [ k \in 1..Cardinality(NewlinePositions(s)) |->
        LET start == IF k = 1 THEN 1 ELSE NthNewline(s, k - 1) + 1
        IN SubSeq(s, start, NthNewline(s, k) - 1) ]

MarkerPositions(l) ==
    { p \in 1..Len(l) : p + 3 <= Len(l) /\ \A j \in 0..3 : l[p + j] = MARKER[j + 1] }

ContainsMarker(l) == MarkerPositions(l) # {}

StartsWithMarker(l) == 1 \in MarkerPositions(l)

\* what follows the first marker of line l
AfterFirstMarker(l) ==
    LET first == CHOOSE p \in MarkerPositions(l) : \A q \in MarkerPositions(l) : p <= q
    IN SubSeq(l, first + 4, Len(l))

\* one name per newline-terminated line that holds the marker, in text order
NamesOfLines(s) ==
    LET marked == SelectSeq(TerminatedLines(s), ContainsMarker)
    IN [ k \in 1..Len(marked) |-> AfterFirstMarker(marked[k]) ]

\* one name per newline-terminated line that begins with the marker
NamesOfLinesStartingWithMarker(s) ==
    LET marked == SelectSeq(TerminatedLines(s), StartsWithMarker)
    IN [ k \in 1..Len(marked) |-> AfterFirstMarker(marked[k]) ]

-----------------------------------------------------------------------------
(* C1 *)

\* C1: each of extract_databases, extract_tables and extract_columns returns, for
\* every text, the names that follow the marker "[*] " up to the next newline, one
\* per marked line, in text order and with repeated names kept; a text with no
\* such line gives the empty sequence.
C1_ExtractorsReturnMarkedNames ==
    /\ pc = "databases" => databases = NamesOfLines(output)
    /\ pc = "tables" => tables = NamesOfLines(output)
    /\ pc = "columns" => columns = NamesOfLines(output)
    /\ (pc = "databases" /\ ~ \E l \in { TerminatedLines(output)[k] :
                                          k \in 1..Len(TerminatedLines(output)) } :
                                 ContainsMarker(l))
          => databases = <<>>

\* three marked lines, the first name repeated by the third
C1_Witness ==
    /\ pc = "tables"
    /\ output = MARKER \o <<"b", NL>> \o MARKER \o <<"a", NL>> \o MARKER \o <<"b", NL>>
    /\ tables = << <<"b">>, <<"a">>, <<"b">> >>

-----------------------------------------------------------------------------
(* C2 *)

\* C2: the extractor yields a name only for a line that begins with the marker; a
\* line in which the marker comes after other characters contributes nothing.
C2_OnlyLinesStartingWithMarker ==
    pc = "databases" => databases = NamesOfLinesStartingWithMarker(output)

-----------------------------------------------------------------------------
(* Reading the trace, for stating the properties *)

IsInvoke(e) == e[1] = "invoke"
IsPrint(e) == e[1] = "print"

\* the external invocations made so far, in order
Invocations == SelectSeq(trace, IsInvoke)

IsDbsCommand(cmd) == Last(cmd) = " --batch --dbs --disable-color"
IsTablesCommand(cmd) == Last(cmd) = " --batch --tables"
IsColumnsCommand(cmd) == Last(cmd) = " --batch --columns"

IsTablesInvoke(e) == IsInvoke(e) /\ IsTablesCommand(e[2])
IsColumnsInvoke(e) == IsInvoke(e) /\ IsColumnsCommand(e[2])

\* the names the script extracted from the output captured for invocation e
NamesFrom(e) == NamesOfLines(getoutput(e[3]))

InRunSqlmap == pc \in {"db_loop", "table_loop"} \/ (pc = "done" /\ Invocations # <<>>)

\* every name a tool output of the model can yield
KnownNames ==
    UNION { { NamesOfLines(getoutput(raw))[k] :
                k \in 1..Len(NamesOfLines(getoutput(raw))) } : raw \in ToolOutputs }

-----------------------------------------------------------------------------
(* C3 *)

Blank(s) == \A k \in 1..Len(s) : s[k] = " "

\* C3: when the line read from the console is empty or only whitespace, the script
\* prints "Invalid URL", never enters run_sqlmap and makes no external invocation.
C3_BlankUrlRejected ==
    (pc # "input" /\ Blank(line)) =>
        /\ Invocations = <<>>
        /\ ~ InRunSqlmap
        /\ \A k \in 1..Len(trace) : trace[k] # Printed(RunningLine(target_url))
        /\ pc = "done" => trace = <<Prompt(PromptText), Printed(InvalidLine)>>

C3_Witness ==
    /\ pc = "done"
    /\ line = <<" ", " ">>
    /\ trace = <<Prompt(PromptText), Printed(InvalidLine)>>

-----------------------------------------------------------------------------
(* C4 *)

\* C4: for a non-empty URL, when the captured database listing holds no marked
\* line, the run makes exactly one invocation (the database listing), reports
\* "No databases found." and ends.
C4_NoDatabasesEndsRun ==
    (target_url # <<>> /\ Invocations # <<>>
        /\ (\A l \in { TerminatedLines(getoutput(Invocations[1][3]))[k] :
                         k \in 1..Len(TerminatedLines(getoutput(Invocations[1][3]))) } :
               ~ ContainsMarker(l)))
    => /\ pc = "done"
       /\ Len(Invocations) = 1
       /\ Invocations[1][2] = dbs_command(target_url)
       /\ Last(trace) = Printed(NoDatabasesLine)
       /\ Cardinality({ k \in 1..Len(trace) : trace[k] = Printed(NoDatabasesLine) }) = 1

C4_Witness ==
    /\ pc = "done"
    /\ target_url = <<"u">>
    /\ Len(Invocations) = 1
    /\ Invocations[1][3] = <<>>
    /\ Last(trace) = Printed(NoDatabasesLine)

-----------------------------------------------------------------------------
(* C5 *)

RECURSIVE SumOfTableCounts(_)
SumOfTableCounts(inv) ==
    IF inv = <<>> THEN 0
    ELSE (IF IsTablesInvoke(Head(inv)) THEN Len(NamesFrom(Head(inv))) ELSE 0)
         + SumOfTableCounts(Tail(inv))

\* C5: a completed run for a non-empty URL makes exactly 1 + D + T invocations:
\* one database listing, D table listings (D the length of the extracted database
\* list) and T column listings (T the sum of the lengths of the table lists),
\* repeated names counted each time.
C5_InvocationCount ==
    (pc = "done" /\ target_url # <<>>) =>
        LET D == Len(databases)
            T == SumOfTableCounts(Invocations)
        IN /\ Len(Invocations) = 1 + D + T
           /\ Len(SelectSeq(Invocations, IsTablesInvoke)) = D
           /\ Len(SelectSeq(Invocations, IsColumnsInvoke)) = T

\* one database whose table list names the same table twice: 1 + 1 + 2 invocations
C5_Witness ==
    /\ pc = "done"
    /\ Len(databases) = 1
    /\ tables = << <<"a">>, <<"a">> >>
    /\ Len(Invocations) = 4

-----------------------------------------------------------------------------
(* C6 *)

\* the commands due from database number i on, read off the outputs in the log;
\* k is where the table listing of database i stands in the log
RECURSIVE DepthFirstFrom(_, _, _, _)
DepthFirstFrom(inv, dbs, i, k) ==
    IF i > Len(dbs) THEN <<>>
    ELSE IF k > Len(inv) THEN <<tables_command(target_url, dbs[i])>>
    ELSE LET tbls == NamesFrom(inv[k])
         IN <<tables_command(target_url, dbs[i])>>
            \o [ j \in 1..Len(tbls) |-> columns_command(target_url, dbs[i], tbls[j]) ]
            \o DepthFirstFrom(inv, dbs, i + 1, k + 1 + Len(tbls))

DepthFirstOrder(inv) ==
    <<dbs_command(target_url)>> \o DepthFirstFrom(inv, NamesFrom(inv[1]), 1, 2)

\* C6: the invocations are made one at a time in depth-first order: the database
\* listing, then for each database in extractor order its table listing followed
\* by the column listing of each of its tables in extractor order, before the
\* table listing of the next database.
C6_DepthFirstOrder ==
    Invocations # <<>> =>
        LET due == DepthFirstOrder(Invocations)
        IN /\ Len(Invocations) <= Len(due)
           /\ \A k \in 1..Len(Invocations) : Invocations[k][2] = due[k]
           /\ pc = "done" => Len(Invocations) = Len(due)

\* databases [b, id]; b has tables [a, a]; id's table listing comes after both
\* column listings of b
C6_Witness ==
    /\ pc = "done"
    /\ databases = << <<"b">>, <<"i", "d">> >>
    /\ Len(Invocations) >= 5
    /\ Invocations[2][2] = tables_command(target_url, <<"b">>)
    /\ Invocations[3][2] = columns_command(target_url, <<"b">>, <<"a">>)
    /\ Invocations[4][2] = columns_command(target_url, <<"b">>, <<"a">>)
    /\ Invocations[5][2] = tables_command(target_url, <<"i", "d">>)

-----------------------------------------------------------------------------
(* C7 *)

\* positions in the trace of the table-listing invocations, in order
TablesPositions ==
    LET at == { p \in 1..Len(trace) : IsTablesInvoke(trace[p]) }
    IN [ k \in 1..Cardinality(at) |->
           CHOOSE p \in at : Cardinality({ q \in at : q < p }) = k - 1 ]

\* C7: when the table listing of a database yields no name, the script reports
\* "No tables found in database {name}.", makes no column listing for that
\* database, and goes on to the table listing of every later database.
C7_EmptyTablesContinue ==
    /\ Len(TablesPositions) <= Len(databases)
    /\ \A k \in 1..Len(TablesPositions) :
        LET p == TablesPositions[k]
        IN NamesFrom(trace[p]) = <<>> =>
            /\ trace[p][2] = tables_command(target_url, databases[k])
            /\ p + 2 <= Len(trace)
            /\ trace[p + 2] = Printed(NoTablesLine(databases[k]))
            /\ p + 3 <= Len(trace) => trace[p + 3] = Printed(FoundDatabaseLine(databases[k + 1]))
            /\ p + 4 <= Len(trace) => trace[p + 4][2] = tables_command(target_url, databases[k + 1])
            /\ k < Len(databases) => (pc = "db_loop" \/ Len(TablesPositions) > k)
    /\ (pc = "done" /\ databases # <<>>) => Len(TablesPositions) = Len(databases)

\* the first of two databases has no table, and the second was listed after it
C7_Witness ==
    /\ pc = "done"
    /\ Len(databases) = 2
    /\ Len(TablesPositions) = 2
    /\ NamesFrom(trace[TablesPositions[1]]) = <<>>
    /\ trace[TablesPositions[1] + 2] = Printed(NoTablesLine(databases[1]))
    /\ TablesPositions[2] = TablesPositions[1] + 4

-----------------------------------------------------------------------------
(* C8 *)

\* the names separated by a comma and a space
RECURSIVE CommaSeparated(_)
CommaSeparated(names) ==
    IF names = <<>> THEN <<>>
    ELSE IF Len(names) = 1 THEN names[1]
    ELSE CommaSeparated(Front(names)) \o <<",", " ">> \o Last(names)

IsResultLineFor(e, t) ==
    /\ IsPrint(e)
    /\ Len(e[2]) >= 1 + Len(t)
    /\ SubSeq(e[2], 1, 1 + Len(t)) \in { <<"No columns found in table ">> \o t,
                                        <<"Columns in ">> \o t }

\* C8: after each column listing for a table t exactly one result line is
\* printed for t: "No columns found in table t." when no column name was
\* extracted, otherwise "Columns in t: " and the names joined by ", " in order.
C8_OneResultLinePerTable ==
    \A p \in 1..Len(trace) :
        IsColumnsInvoke(trace[p]) =>
            \E db \in KnownNames, t \in KnownNames :
                /\ trace[p][2] = columns_command(target_url, db, t)
                /\ p + 2 <= Len(trace)
                /\ LET cols == NamesFrom(trace[p])
                   IN trace[p + 2] =
                        IF cols = <<>>
                        THEN Printed(<<"No columns found in table ">> \o t \o <<".">>)
                        ELSE Printed(<<"Columns in ">> \o t \o <<": ">>
                                     \o CommaSeparated(cols))
                /\ ~ IsResultLineFor(trace[p + 1], t)
                /\ p + 3 <= Len(trace) => ~ IsResultLineFor(trace[p + 3], t)

\* the captured column output "[*] b\n[*] id\n" for table a gives "Columns in a: b, id"
C8_Witness ==
    \E p \in 1..Len(trace) :
        /\ IsColumnsInvoke(trace[p])
        /\ trace[p + 1] = Printed(<<"i", " ">> \o MARKER \o <<"b", NL>>
                                  \o MARKER \o <<"i", "d", NL>>)
        /\ trace[p + 2] = Printed(<<"Columns in ", "a", ": ", "b", ",", " ", "i", "d">>)

-----------------------------------------------------------------------------
(* C9 *)

IsProgressLine(l) ==
    l # <<>> /\ l[1] \in {"Running SQLMap on ", "Found database: ",
                          "Extracting columns from "}

\* lines that report what an extraction gave ("Found database: " reports a database
\* that was found, and also opens that database's table listing)
IsSummaryLine(l) ==
    l # <<>> /\ l[1] \in {"No databases found.", "Found database: ",
                          "No tables found in database ",
                          "No columns found in table ", "Columns in "}

\* the progress line printed for command cmd
ProgressLineOf(cmd) ==
    IF IsDbsCommand(cmd) THEN { RunningLine(target_url) }
    ELSE IF IsTablesCommand(cmd)
         THEN { FoundDatabaseLine(db) : db \in { d \in KnownNames :
                    cmd = tables_command(target_url, d) } }
         ELSE { ExtractingLine(t) : t \in { n \in KnownNames :
                    \E d \in KnownNames : cmd = columns_command(target_url, d, n) } }

\* C9 as stated: around every invocation, at each of the three levels, a
\* progress line comes before it, the captured output is printed after it, and a
\* summary line is printed after the extraction.
C9_ProgressOutputSummary ==
    \A p \in 1..Len(trace) :
        IsInvoke(trace[p]) =>
            /\ p > 1
            /\ IsPrint(trace[p - 1]) /\ IsProgressLine(trace[p - 1][2])
            /\ p + 1 <= Len(trace)
            /\ trace[p + 1] = Printed(getoutput(trace[p][3]))
            /\ p + 2 <= Len(trace) => IsPrint(trace[p + 2]) /\ IsSummaryLine(trace[p + 2][2])
            /\ pc = "done" => p + 2 <= Len(trace)

\* C9 amended: the progress line and the captured output frame every invocation;
\* a summary line follows at the database and column levels, and at the table
\* level only when no table was extracted: otherwise the next line printed is
\* the progress line of the first column listing.
C9_Amended ==
    \A p \in 1..Len(trace) :
        IsInvoke(trace[p]) =>
            /\ p > 1
            /\ IsPrint(trace[p - 1]) /\ trace[p - 1][2] \in ProgressLineOf(trace[p][2])
            /\ p + 1 <= Len(trace)
            /\ trace[p + 1] = Printed(getoutput(trace[p][3]))
            /\ pc = "done" => p + 2 <= Len(trace)
            /\ p + 2 <= Len(trace) =>
                LET names == NamesFrom(trace[p])
                    next == trace[p + 2]
                    db == CHOOSE d \in KnownNames :
                            IsTablesCommand(trace[p][2])
                                => trace[p][2] = tables_command(target_url, d)
                IN /\ IsPrint(next)
                   /\ IsDbsCommand(trace[p][2]) =>
                        next[2] = IF names = <<>> THEN NoDatabasesLine
                                                  ELSE FoundDatabaseLine(names[1])
                   /\ IsTablesCommand(trace[p][2]) =>
                        next[2] = IF names = <<>> THEN NoTablesLine(db)
                                                  ELSE ExtractingLine(names[1])
                   /\ IsColumnsCommand(trace[p][2]) =>
                        /\ IsSummaryLine(next[2])
                        /\ next[2][1] = IF names = <<>> THEN "No columns found in table "
                                                        ELSE "Columns in "

\* a table listing that yields a table is followed by the progress line of the
\* column listing, with no summary line in between
C9_Witness ==
    \E p \in 1..Len(trace) :
        /\ IsTablesInvoke(trace[p])
        /\ p + 3 <= Len(trace)
        /\ trace[p - 1] = Printed(FoundDatabaseLine(<<"a">>))
        /\ trace[p + 1] = Printed(getoutput(trace[p][3]))
        /\ trace[p + 2] = Printed(ExtractingLine(<<"a">>))
        /\ IsColumnsInvoke(trace[p + 3])

-----------------------------------------------------------------------------
(* C10 *)

\* raw with its last line closed by a newline
Closed(raw) == IF raw # <<>> /\ Last(raw) = NL THEN raw ELSE raw \o <<NL>>

\* the names of all marked lines of the tool's output, the last line included
NamesOfAllLines(raw) == IF raw = <<>> THEN <<>> ELSE NamesOfLines(Closed(raw))

LastLineIsMarked(raw) ==
    /\ raw # <<>>
    /\ ContainsMarker(Last(TerminatedLines(Closed(raw))))

\* the variable the names of the latest invocation were stored in
LatestNames ==
    LET e == Last(Invocations)
    IN IF IsDbsCommand(e[2]) THEN databases
       ELSE IF IsTablesCommand(e[2]) THEN tables
       ELSE columns

\* C10: a marked line is extracted only if a newline follows it in the captured
\* text, and the captured text has lost its trailing newline: a marked line that
\* is the last line of the tool's output is never extracted, so a database
\* listing that is the single line "[*] a" gives "No databases found.".
C10_LastMarkedLineLost ==
    (Invocations # <<>> /\ LastLineIsMarked(Last(Invocations)[3])) =>
        LET e == Last(Invocations)
        IN /\ LatestNames = Front(NamesOfAllLines(e[3]))
           /\ (IsDbsCommand(e[2]) /\ Len(NamesOfAllLines(e[3])) = 1) =>
                 /\ pc = "done"
                 /\ Last(trace) = Printed(NoDatabasesLine)

C10_Witness ==
    /\ pc = "done"
    /\ Len(Invocations) = 1
    /\ Invocations[1][3] = MARKER \o <<"a", NL>>
    /\ databases = <<>>
    /\ Last(trace) = Printed(NoDatabasesLine)

====
